---------------------------- MODULE Spec2Model ----------------------------
(***************************************************************************)
(* A model of the two poker command-line tools:                            *)
(*   src/preflop.py    the pre-flop advisor (normalize_hand,               *)
(*                     get_preflop_suggestion, log_decision, main,         *)
(*                     run_interactive);                                   *)
(*   src/poker_cli.py  the outs / pot-odds calculator (rule_of_2_and_4,    *)
(*                     exact_probability_by_outs, pot_odds, main).         *)
(*                                                                         *)
(* Representation.                                                         *)
(*   - A Python str is a sequence of one-character strings; hand codes     *)
(*     and the entries of RANGES are such sequences ("AKs" is              *)
(*     <<"A","K","s">>).  Fixed labels that the code only compares or      *)
(*     prints ("fold", "utg", "none", the explanations) are TLA+ strings.  *)
(*   - A Python value that may be None or an exception is a record with a  *)
(*     kind field: None, Str(s), Raised(exc), Unset (not yet assigned).    *)
(*   - A Python float is an exact rational [n, d] with d > 0; only         *)
(*     comparisons and the four operations are used, so rounding of the    *)
(*     last binary digit is the one thing abstracted.                      *)
(*   - stack_size is a float that the code only compares with 20; it is    *)
(*     modelled by whole numbers of big blinds.                            *)
(***************************************************************************)
EXTENDS Integers, Sequences, FiniteSets, TLC

VARIABLES
    \* ---- src/preflop.py: one advisor run after another
    pc,             \* position in main / run_interactive, or "idle"
    mode,           \* "cli" | "interactive" (args.interactive)
    cards,          \* args.cards / the cards prompt: None or Str(text)
    position,       \* args.position / the position prompt: None or a label
    stack_size,     \* args.stack_size / the parsed stack prompt
    action_before,  \* args.action_before / the action prompt
    normalized,     \* the value of normalize_hand(cards)
    result,         \* the pair returned by get_preflop_suggestion
    stdout,         \* what the current run has printed, in order
    log,            \* preflop_suggestions.csv: the sequence of writes
    run_no,         \* number of runs started (stands for the timestamp)
    \* ---- src/poker_cli.py: one run of the probability tool
    ppc,            \* position in main
    args,           \* the parsed command line
    win_probability,
    odds_against,
    final_pot_odds,
    pstdout         \* the recommendation lines printed

preflop_vars == <<pc, mode, cards, position, stack_size, action_before,
                  normalized, result, stdout, log, run_no>>
poker_vars == <<ppc, args, win_probability, odds_against, final_pot_odds, pstdout>>
vars == <<pc, mode, cards, position, stack_size, action_before, normalized,
          result, stdout, log, run_no,
          ppc, args, win_probability, odds_against, final_pot_odds, pstdout>>

---------------------------------------------------------------------------
(* Python values *)

None == [kind |-> "None"]
Unset == [kind |-> "unset"]
Str(s) == [kind |-> "str", val |-> s]
Raised(exc) == [kind |-> "raise", exc |-> exc]

---------------------------------------------------------------------------
(* Characters *)

RankChars == {"A", "K", "Q", "J", "T", "9", "8", "7", "6", "5", "4", "3", "2"}
SuitChars == {"h", "c", "d", "s"}
Whitespace == {" ", "\n", "\t"}

\* str.upper() / str.lower() on one character, for the letters the model uses
UpperOf == [c \in {"a", "k", "q", "j", "t", "h", "c", "d", "s", "x", "o"} |->
              CASE c = "a" -> "A" [] c = "k" -> "K" [] c = "q" -> "Q"
                [] c = "j" -> "J" [] c = "t" -> "T" [] c = "h" -> "H"
                [] c = "c" -> "C" [] c = "d" -> "D" [] c = "s" -> "S"
                [] c = "x" -> "X" [] c = "o" -> "O"]
upper(c) == IF c \in DOMAIN UpperOf THEN UpperOf[c] ELSE c
lower(c) == IF \E l \in DOMAIN UpperOf : UpperOf[l] = c
            THEN CHOOSE l \in DOMAIN UpperOf : UpperOf[l] = c
            ELSE c

\* the two character classes of r'([AKQJT2-9][hcds])' under re.IGNORECASE
MatchesRank(c) == upper(c) \in RankChars
MatchesSuit(c) == lower(c) \in SuitChars

---------------------------------------------------------------------------
(* normalize_hand *)

\* re.findall(r'([AKQJT2-9][hcds])', hole_cards, re.IGNORECASE): the
\* non-overlapping matches, scanning left to right from index i
RECURSIVE findall(_, _)
findall(s, i) ==
    IF i + 1 > Len(s) THEN << >>
    ELSE IF MatchesRank(s[i]) /\ MatchesSuit(s[i + 1])
         THEN << <<s[i], s[i + 1]>> >> \o findall(s, i + 2)
         ELSE findall(s, i + 1)

\* hole_cards.split(): the maximal runs of non-whitespace characters
RECURSIVE split_from(_, _, _)
split_from(s, i, cur) ==
    IF i > Len(s) THEN (IF cur = << >> THEN << >> ELSE <<cur>>)
    ELSE IF s[i] \in Whitespace
         THEN (IF cur = << >> THEN split_from(s, i + 1, << >>)
               ELSE <<cur>> \o split_from(s, i + 1, << >>))
         ELSE split_from(s, i + 1, Append(cur, s[i]))

split(s) == split_from(s, 1, << >>)

rank_order == [r \in RankChars |->
                 CASE r = "A" -> 14 [] r = "K" -> 13 [] r = "Q" -> 12
                   [] r = "J" -> 11 [] r = "T" -> 10 [] r = "9" -> 9
                   [] r = "8" -> 8 [] r = "7" -> 7 [] r = "6" -> 6
                   [] r = "5" -> 5 [] r = "4" -> 4 [] r = "3" -> 3
                   [] r = "2" -> 2]

\* "Sort so highest rank is first": the swap of lines 118-120
order_by_rank_noswap(r1, s1, r2, s2) == <<r1, s1, r2, s2>>
order_by_rank(r1, s1, r2, s2) ==
    IF rank_order[r2] > rank_order[r1] THEN <<r2, s2, r1, s1>>
    ELSE <<r1, s1, r2, s2>>

\* lines 122-130: pair, suited or offsuit
hand_code_flipped(r1, s1, r2, s2) ==
    IF r1 = r2 THEN <<r1, r2>>
    ELSE IF s1 = s2 THEN <<r1, r2, "o">> ELSE <<r1, r2, "s">>
hand_code(r1, s1, r2, s2) ==
    IF r1 = r2 THEN <<r1, r2>>
    ELSE IF s1 = s2 THEN <<r1, r2, "s">> ELSE <<r1, r2, "o">>

\* the tokens normalize_hand works on (lines 101-104)
card_tokens(hole_cards) ==
    LET pattern == findall(hole_cards, 1)
    IN  IF Len(pattern) < 2 THEN split(hole_cards) ELSE pattern

normalize_hand(hole_cards) ==
    LET pattern == card_tokens(hole_cards)
    IN  IF Len(pattern) # 2 THEN None
        ELSE LET card1 == pattern[1]
                 card2 == pattern[2]
             IN  \* card1[1] / card2[1] on a one-character token
                 IF Len(card1) < 2 \/ Len(card2) < 2 THEN Raised("IndexError")
                 ELSE LET r1 == upper(card1[1])
                          s1 == lower(card1[2])
                          r2 == upper(card2[1])
                          s2 == lower(card2[2])
                      IN  \* rank_order[r2], rank_order[r1] on a non-rank
                          IF r2 \notin DOMAIN rank_order \/ r1 \notin DOMAIN rank_order
                          THEN Raised("KeyError")
                          ELSE LET o == order_by_rank(r1, s1, r2, s2)
                               IN  Str(hand_code(o[1], o[2], o[3], o[4]))

---------------------------------------------------------------------------
(* RANGES: per position, the "raise" and the "call" set of hand codes *)

RANGES_utg ==
  [ raise |-> {
        <<"A","A">>, <<"K","K">>, <<"Q","Q">>, <<"J","J">>, <<"T","T">>,
        <<"A","K","s">>, <<"A","Q","s">>, <<"A","J","s">>, <<"K","Q","s">>,
        <<"A","K","o">> },
    call |-> {
        <<"9","9">>, <<"8","8">>, <<"7","7">>, <<"6","6">>, <<"5","5">>, <<"4","4">>,
        <<"3","3">>, <<"2","2">> } ]

RANGES_mp ==
  [ raise |-> {
        <<"A","A">>, <<"K","K">>, <<"Q","Q">>, <<"J","J">>, <<"T","T">>,
        <<"A","K","s">>, <<"A","Q","s">>, <<"A","J","s">>, <<"A","T","s">>,
        <<"K","Q","s">>, <<"A","K","o">>, <<"A","Q","o">>, <<"A","J","o">>,
        <<"K","Q","o">> },
    call |-> {
        <<"9","9">>, <<"8","8">>, <<"7","7">>, <<"6","6">>, <<"5","5">>, <<"4","4">>,
        <<"3","3">>, <<"2","2">>, <<"K","J","s">>, <<"Q","J","s">>, <<"T","9","s">> } ]

RANGES_hj ==
  [ raise |-> {
        <<"A","A">>, <<"K","K">>, <<"Q","Q">>, <<"J","J">>, <<"T","T">>, <<"9","9">>,
        <<"A","K","s">>, <<"A","Q","s">>, <<"A","J","s">>, <<"A","T","s">>,
        <<"K","Q","s">>, <<"K","J","s">>, <<"A","K","o">>, <<"A","Q","o">>,
        <<"A","J","o">>, <<"K","Q","o">>, <<"K","J","o">> },
    call |-> {
        <<"8","8">>, <<"7","7">>, <<"6","6">>, <<"5","5">>, <<"4","4">>, <<"3","3">>,
        <<"2","2">>, <<"Q","J","s">>, <<"J","T","s">>, <<"T","9","s">>, <<"9","8","s">> } ]

RANGES_co ==
  [ raise |-> {
        <<"A","A">>, <<"K","K">>, <<"Q","Q">>, <<"J","J">>, <<"T","T">>, <<"9","9">>,
        <<"8","8">>, <<"A","K","s">>, <<"A","Q","s">>, <<"A","J","s">>,
        <<"A","T","s">>, <<"K","Q","s">>, <<"K","J","s">>, <<"Q","J","s">>,
        <<"A","K","o">>, <<"A","Q","o">>, <<"A","J","o">>, <<"K","Q","o">>,
        <<"K","J","o">>, <<"Q","J","o">>, <<"J","T","s">>, <<"T","9","s">>,
        <<"9","8","s">> },
    call |-> {
        <<"7","7">>, <<"6","6">>, <<"5","5">>, <<"4","4">>, <<"3","3">>, <<"2","2">>,
        <<"A","9","s">>, <<"K","T","s">>, <<"Q","T","s">>, <<"J","9","s">>,
        <<"8","7","s">>, <<"7","6","s">> } ]

RANGES_btn ==
  [ raise |-> {
        <<"A","A">>, <<"K","K">>, <<"Q","Q">>, <<"J","J">>, <<"T","T">>, <<"9","9">>,
        <<"8","8">>, <<"7","7">>, <<"A","K","s">>, <<"A","Q","s">>, <<"A","J","s">>,
        <<"A","T","s">>, <<"K","Q","s">>, <<"K","J","s">>, <<"Q","J","s">>,
        <<"J","T","s">>, <<"A","K","o">>, <<"A","Q","o">>, <<"A","J","o">>,
        <<"K","Q","o">>, <<"K","J","o">>, <<"Q","J","o">>, <<"T","9","s">>,
        <<"9","8","s">>, <<"8","7","s">>, <<"7","6","s">>, <<"A","9","s">>,
        <<"A","8","s">>, <<"A","5","s">> },
    call |-> {
        <<"6","6">>, <<"5","5">>, <<"4","4">>, <<"3","3">>, <<"2","2">>,
        <<"K","T","s">>, <<"Q","T","s">>, <<"J","9","s">>, <<"T","8","s">>,
        <<"9","7","s">>, <<"8","6","s">> } ]

RANGES_sb ==
  [ raise |-> {
        <<"A","A">>, <<"K","K">>, <<"Q","Q">>, <<"J","J">>, <<"T","T">>, <<"9","9">>,
        <<"8","8">>, <<"A","K","s">>, <<"A","Q","s">>, <<"A","J","s">>,
        <<"A","T","s">>, <<"K","Q","s">>, <<"K","J","s">>, <<"A","K","o">>,
        <<"A","Q","o">>, <<"A","J","o">>, <<"K","Q","o">>, <<"Q","J","s">>,
        <<"J","T","s">>, <<"T","9","s">>, <<"9","8","s">> },
    call |-> {
        <<"7","7">>, <<"6","6">>, <<"5","5">>, <<"4","4">>, <<"3","3">>, <<"2","2">>,
        <<"A","9","s">>, <<"K","T","s">>, <<"Q","T","s">>, <<"J","9","s">>,
        <<"8","7","s">>, <<"7","6","s">> } ]

RANGES_bb ==
  [ raise |-> {
        <<"A","A">>, <<"K","K">>, <<"Q","Q">>, <<"J","J">>, <<"T","T">>,
        <<"A","K","s">>, <<"A","Q","s">>, <<"A","J","s">>, <<"K","Q","s">>,
        <<"A","K","o">>, <<"A","Q","o">>, <<"A","J","o">>, <<"K","Q","o">> },
    call |-> {
        <<"9","9">>, <<"8","8">>, <<"7","7">>, <<"6","6">>, <<"5","5">>, <<"4","4">>,
        <<"3","3">>, <<"2","2">>, <<"A","T","s">>, <<"K","J","s">>, <<"Q","J","s">>,
        <<"J","T","s">>, <<"T","9","s">>, <<"9","8","s">>, <<"8","7","s">>,
        <<"7","6","s">>, <<"A","9","s">>, <<"K","T","s">>, <<"Q","T","s">>,
        <<"J","9","s">>, <<"T","8","s">> } ]

RANGES == [utg |-> RANGES_utg, mp |-> RANGES_mp, hj |-> RANGES_hj,
           co |-> RANGES_co, btn |-> RANGES_btn, sb |-> RANGES_sb,
           bb |-> RANGES_bb]

---------------------------------------------------------------------------
(* get_preflop_suggestion *)

\* a returned pair (suggestion, explanation); the explanation is the tuple
\* of the pieces of its (f-)string
Pair(suggestion, explanation) ==
    [kind |-> "pair", suggestion |-> suggestion, explanation |-> explanation]

\* line 142: "if stack_size < 20"
is_short_stacked_below_10(stack) == stack < 10
is_short_stacked(stack) == stack < 20

\* lines 144-147: push or fold
short_stack_decision(is_in_raise_range) ==
    IF is_in_raise_range
    THEN Pair("all-in", <<"Short-stacked strategy: Push with premium/strong range.">>)
    ELSE Pair("fold", <<"Short-stacked strategy: Hand not strong enough to shove.">>)

\* lines 150-157: action_before == "none"
open_decision(is_in_raise_range, is_in_call_range) ==
    IF is_in_raise_range
    THEN Pair("raise", <<"Open-raise with a strong or premium hand.">>)
    ELSE IF is_in_call_range
    THEN Pair("call", <<"You might limp/call with a speculative hand if table conditions allow.">>)
    ELSE Pair("fold", <<"Not in raise/call range for your position. Fold.">>)

\* lines 158-166: action_before == "raise"
facing_raise_decision_relabelled(is_in_raise_range, is_in_call_range) ==
    IF is_in_raise_range
    THEN Pair("raise", <<"Facing a raise: 3-bet with your strong range.">>)
    ELSE IF is_in_call_range
    THEN Pair("call", <<"Facing a raise: Flat-call with your speculative hand.">>)
    ELSE Pair("fold", <<"Facing a raise: Hand not strong enough. Fold.">>)
facing_raise_decision(is_in_raise_range, is_in_call_range) ==
    IF is_in_raise_range
    THEN Pair("3-bet", <<"Facing a raise: 3-bet with your strong range.">>)
    ELSE IF is_in_call_range
    THEN Pair("call", <<"Facing a raise: Flat-call with your speculative hand.">>)
    ELSE Pair("fold", <<"Facing a raise: Hand not strong enough. Fold.">>)

\* lines 167-174: action_before == "call"
facing_call_decision(is_in_raise_range, is_in_call_range) ==
    IF is_in_raise_range
    THEN Pair("raise", <<"Isolate the limper with a strong hand.">>)
    ELSE IF is_in_call_range
    THEN Pair("call", <<"Over-limp with a speculative hand.">>)
    ELSE Pair("fold", <<"Not strong enough to raise or call. Fold.">>)

\* line 177: the hands that 4-bet
TOP_TIER == { <<"A","A">>, <<"K","K">>, <<"Q","Q">>, <<"A","K","s">>, <<"A","K","o">> }

\* lines 175-180: action_before == "3bet"
facing_3bet_decision(hand, is_in_raise_range) ==
    IF is_in_raise_range /\ hand \in TOP_TIER
    THEN Pair("4-bet", <<"Facing a 3-bet: 4-bet only top-tier hands.">>)
    ELSE Pair("fold", <<"Facing a 3-bet: This hand is not strong enough.">>)

\* lines 181-182: any other action_before
unknown_action_decision_calls(action) ==
    Pair("call", <<"Unknown action_before=", action, "; defaulting to fold.">>)
unknown_action_decision(action) ==
    Pair("fold", <<"Unknown action_before=", action, "; defaulting to fold.">>)

get_preflop_suggestion(hand, pos, stack, action) ==
    IF pos \notin DOMAIN RANGES
    THEN Pair("fold", <<"Position ", pos, " not recognized in RANGES.">>)
    ELSE LET pos_ranges == RANGES[pos]
             is_in_raise_range == hand \in pos_ranges.raise
             is_in_call_range == hand \in pos_ranges.call
         IN  IF is_short_stacked(stack)
             THEN short_stack_decision(is_in_raise_range)
             ELSE CASE action = "none" ->
                         open_decision(is_in_raise_range, is_in_call_range)
                    [] action = "raise" ->
                         facing_raise_decision(is_in_raise_range, is_in_call_range)
                    [] action = "call" ->
                         facing_call_decision(is_in_raise_range, is_in_call_range)
                    [] action = "3bet" ->
                         facing_3bet_decision(hand, is_in_raise_range)
                    [] OTHER -> unknown_action_decision(action)

\* get_recommended_raise_size, in tenths of a big blind
get_recommended_raise_size(pos, stack) ==
    IF pos \in {"utg", "mp", "hj"} THEN 30
    ELSE IF pos = "co" THEN 25
    ELSE IF pos = "btn" THEN 22
    ELSE IF pos = "sb" THEN 30
    ELSE IF pos = "bb" THEN 30
    ELSE 25

---------------------------------------------------------------------------
(* Bounds and input sets of the advisor *)

MaxLen == 6     \* longest free text given to normalize_hand
MaxRuns == 2    \* advisor runs in one behaviour

\* argparse choices of --position and --action_before
PositionChoices == {"utg", "mp", "hj", "co", "btn", "sb", "bb"}
ActionChoices == {"none", "raise", "call", "3bet"}

\* free text: every string of at most MaxLen characters over a rank in each
\* letter case, a suit in each letter case, a blank and a non-card character
Alphabet == {"A", "k", "h", "C", " ", "x"}
Texts == UNION { [1..n -> Alphabet] : n \in 0..MaxLen }

\* every two-card text: rank and suit in either letter case, the two cards
\* written together or separated by a blank or a line break
CardRankChars == RankChars \cup {"a", "k", "q", "j", "t"}
CardSuitChars == SuitChars \cup {"H", "C", "D", "S"}
Separators == { << >>, <<" ">>, <<"\n">> }
TwoCardTexts == { <<r1, s1>> \o sep \o <<r2, s2>> :
                    r1 \in CardRankChars, s1 \in CardSuitChars,
                    r2 \in CardRankChars, s2 \in CardSuitChars,
                    sep \in Separators }

\* the hand codes normalize_hand returns for two cards
HandCodes == { <<r, r>> : r \in RankChars }
             \cup { <<p[1], p[2], x>> :
                      p \in {q \in RankChars \X RankChars :
                               rank_order[q[1]] > rank_order[q[2]]},
                      x \in {"s", "o"} }

\* inputs of get_preflop_suggestion: the recognized labels and two others
SuggestPositions == PositionChoices \cup {"ep", ""}
SuggestActions == ActionChoices \cup {"bet", ""}
SuggestStacks == {0, 10, 19, 20, 21, 100}

\* inputs of the runs of the advisor
RunCards == { <<"A", "h", "K", "c">>, <<"9", "h", " ", "9", "c">>,
              <<"A", "h", "\n", "K", "c">>, <<"A", "h">>, <<"x", " ", "x">>, << >> }
RunPositions == {"utg", "btn"}
RunStacks == {10, 100}
RunActions == {"none", "3bet"}
\* input() returns one line without its line break
TypedCards == {t \in RunCards : \A i \in 1..Len(t) : t[i] # "\n"}
TypedPositions == {"UTG", "btn", "xx"}
TypedStacks == {"10", "abc"}
TypedActions == {"3BET", "none", "bet"}

\* str.lower() of a typed label
lower_label(l) == CASE l = "UTG" -> "utg" [] l = "3BET" -> "3bet" [] OTHER -> l

\* float(stack_size_str), or ValueError
parse_float(t) == CASE t = "10" -> [kind |-> "float", val |-> 10]
                    [] t = "100" -> [kind |-> "float", val |-> 100]
                    [] OTHER -> Raised("ValueError")

---------------------------------------------------------------------------
(* The advisor: main and run_interactive *)

Terminal == {"exit0", "exit1", "traceback"}

\* parser.parse_args() of a new run (lines 242-275)
ParseArgs ==
    /\ pc \in Terminal \cup {"idle"}
    /\ run_no < MaxRuns
    /\ run_no' = run_no + 1
    /\ \E m \in {"cli", "interactive"} :
         /\ mode' = m
         /\ IF m = "cli"
            THEN /\ cards' \in {None} \cup {Str(t) : t \in RunCards}
                 /\ position' \in {None} \cup {Str(p) : p \in RunPositions}
                 /\ stack_size' \in RunStacks
                 /\ action_before' \in RunActions
            ELSE \* the other arguments are ignored: their defaults
                 /\ cards' = None
                 /\ position' = None
                 /\ stack_size' = 100
                 /\ action_before' = "none"
    /\ pc' = "main"
    /\ normalized' = Unset
    /\ result' = Unset
    /\ stdout' = << >>
    /\ UNCHANGED log
    /\ UNCHANGED poker_vars

\* run_interactive, lines 207-217: the four prompts and the stack fallback
Prompt ==
    /\ pc = "main"
    /\ mode = "interactive"
    /\ \E c \in TypedCards, p \in TypedPositions, s \in TypedStacks, a \in TypedActions :
         LET f == parse_float(s)
         IN  /\ cards' = Str(c)
             /\ position' = Str(lower_label(p))
             /\ action_before' = lower_label(a)
             /\ stack_size' = IF f.kind = "raise" THEN 100 ELSE f.val
             /\ stdout' = IF f.kind = "raise"
                          THEN <<"=== Interactive Pre-Flop Advisor ===",
                                 "Invalid stack size. Using 100 BB by default.">>
                          ELSE <<"=== Interactive Pre-Flop Advisor ===">>
    /\ pc' = "normalize"
    /\ UNCHANGED <<mode, normalized, result, log, run_no>>
    /\ UNCHANGED poker_vars

\* main, lines 283-285: --cards and --position are required
CheckRequired ==
    /\ pc = "main"
    /\ mode = "cli"
    /\ IF cards.kind = "None" \/ cards = Str(<< >>) \/ position.kind = "None"
       THEN /\ stdout' = Append(stdout, "Error: --cards and --position are required in non-interactive mode (or use --interactive).")
            /\ pc' = "exit1"
       ELSE /\ stdout' = stdout
            /\ pc' = "normalize"
    /\ UNCHANGED <<mode, cards, position, stack_size, action_before,
                   normalized, result, log, run_no>>
    /\ UNCHANGED poker_vars

\* main, lines 287-290; run_interactive, lines 219-222
NormalizeStep ==
    /\ pc = "normalize"
    /\ normalized' = normalize_hand(cards.val)
    /\ IF normalized'.kind = "raise"
       THEN \* the exception is not caught: the run ends in a traceback
            /\ pc' = "traceback"
            /\ stdout' = stdout
       ELSE IF normalized'.kind = "None"
       THEN IF mode = "cli"
            THEN /\ stdout' = Append(stdout, "Error: Could not parse your hole cards.")
                 /\ pc' = "exit1"
            ELSE /\ stdout' = Append(stdout, "Error parsing hole cards. Exiting.")
                 /\ pc' = "exit0"
       ELSE /\ stdout' = stdout
            /\ pc' = "suggest"
    /\ UNCHANGED <<mode, cards, position, stack_size, action_before,
                   result, log, run_no>>
    /\ UNCHANGED poker_vars

\* main, lines 292-297; run_interactive, line 225
SuggestStep ==
    /\ pc = "suggest"
    /\ result' = get_preflop_suggestion(normalized.val, position.val,
                                        stack_size, action_before)
    /\ pc' = "print"
    /\ UNCHANGED <<mode, cards, position, stack_size, action_before,
                   normalized, stdout, log, run_no>>
    /\ UNCHANGED poker_vars

\* main, lines 299-306; run_interactive, lines 228-235
PrintStep ==
    /\ pc = "print"
    /\ stdout' = stdout
                 \o <<IF mode = "cli" THEN "=== Enhanced Pre-Flop Advisor ==="
                      ELSE "=== Decision ===",
                      "Hand", "Position | Stack | Prior Action",
                      "Suggested Action">>
                 \o (IF result.suggestion \in {"raise", "3-bet", "4-bet"}
                     THEN <<"Recommended Size">> ELSE << >>)
                 \o <<"Reason">>
    /\ pc' = "log"
    /\ UNCHANGED <<mode, cards, position, stack_size, action_before,
                   normalized, result, log, run_no>>
    /\ UNCHANGED poker_vars

\* log_decision, lines 200-204: the one line written, by its fields; the
\* write ends with "\n"
log_line(ts, c, n, p, s, a, suggestion, explanation) ==
    [timestamp |-> ts, cards |-> c, normalized |-> n, position |-> p,
     stack_size |-> s, action_before |-> a, suggestion |-> suggestion,
     explanation |-> explanation]

\* open(filename, "a") ... f.write(...): the file grows by the write
log_decision(file, ts, c, n, p, s, a, suggestion, explanation) ==
    Append(file, log_line(ts, c, n, p, s, a, suggestion, explanation))

\* main, lines 308-309; run_interactive, line 238
LogStep ==
    /\ pc = "log"
    /\ log' = log_decision(log, run_no, cards.val, normalized.val, position.val,
                           stack_size, action_before,
                           result.suggestion, result.explanation)
    /\ pc' = "exit0"
    /\ UNCHANGED <<mode, cards, position, stack_size, action_before,
                   normalized, result, stdout, run_no>>
    /\ UNCHANGED poker_vars

\* number of "\n" characters in a text
RECURSIVE count_newlines(_)
count_newlines(s) ==
    IF s = << >> THEN 0
    ELSE (IF Head(s) = "\n" THEN 1 ELSE 0) + count_newlines(Tail(s))

\* the lines a write adds to the file: its own final "\n" and every line
\* break inside the cards text, which is written as typed (the other fields
\* are labels, numbers and hand codes)
lines_of_write(w) == 1 + count_newlines(w.cards)

RECURSIVE lines_of_file(_)
lines_of_file(file) ==
    IF file = << >> THEN 0
    ELSE lines_of_write(Head(file)) + lines_of_file(Tail(file))

---------------------------------------------------------------------------
(* Floats, as exact rationals n/d with d > 0 *)

Float(n, d) == IF d < 0 THEN [kind |-> "float", n |-> -n, d |-> -d]
               ELSE [kind |-> "float", n |-> n, d |-> d]
Zero == Float(0, 1)
One == Float(1, 1)
fsub(a, b) == Float(a.n * b.d - b.n * a.d, a.d * b.d)
fmul(a, b) == Float(a.n * b.n, a.d * b.d)
\* a / b for b # 0
fdiv(a, b) == Float(a.n * b.d, a.d * b.n)
flt(a, b) == a.n * b.d < b.n * a.d
fle(a, b) == a.n * b.d <= b.n * a.d
feq(a, b) == a.n * b.d = b.n * a.d
fmin(a, b) == IF flt(b, a) THEN b ELSE a

---------------------------------------------------------------------------
(* src/poker_cli.py *)

\* outs * 0.04 and outs * 0.02
percent(outs, per_out) == Float(outs * per_out, 100)

rule_of_2_and_4_uncapped(outs, cards_left_to_see) ==
    IF cards_left_to_see = 2 THEN percent(outs, 4)
    ELSE IF cards_left_to_see = 1 THEN percent(outs, 2)
    ELSE percent(outs, 4)
rule_of_2_and_4(outs, cards_left_to_see) ==
    IF cards_left_to_see = 2 THEN fmin(One, percent(outs, 4))
    ELSE IF cards_left_to_see = 1 THEN fmin(One, percent(outs, 2))
    ELSE fmin(One, percent(outs, 4))

\* the loop of lines 39-41 from iteration i on, with p_no_out so far; the
\* division raises ZeroDivisionError when deck_size - i is 0
RECURSIVE p_no_out_loop(_, _, _, _, _)
p_no_out_loop(deck_size, outs, cards_left_to_see, i, p_no_out) ==
    IF i >= cards_left_to_see THEN p_no_out
    ELSE IF deck_size - i = 0 THEN Raised("ZeroDivisionError")
    ELSE p_no_out_loop(deck_size, outs, cards_left_to_see, i + 1,
                       fmul(p_no_out, Float(deck_size - outs - i, deck_size - i)))

exact_probability_by_outs(outs, cards_left_to_see, visible_cards) ==
    LET deck_size == 52 - visible_cards
        p_no_out == p_no_out_loop(deck_size, outs, cards_left_to_see, 0, One)
    IN  IF p_no_out.kind = "raise" THEN p_no_out
        ELSE fsub(One, p_no_out)

pot_odds(pot_size, call_amount) ==
    IF call_amount = 0 THEN Raised("ZeroDivisionError")
    ELSE Float(pot_size + call_amount, call_amount)

MaxOuts == 50   \* largest --outs tried

OutsRange == (0 - 2)..MaxOuts
CardsLeftChoices == {1, 2}
MethodChoices == {"rule_of_2_4", "exact"}
PotSizes == {0, 3, 10}
CallAmounts == {0 - 1, 0, 1, 5}
VisibleCards == {0, 5, 6, 51, 52, 53}

\* main, lines 99-106
ComputeProbability ==
    /\ ppc = "start"
    /\ win_probability' =
         IF args.method = "rule_of_2_4"
         THEN rule_of_2_and_4(args.outs, args.cards_left_to_see)
         ELSE exact_probability_by_outs(args.outs, args.cards_left_to_see,
                                        args.visible_cards)
    /\ ppc' = IF win_probability'.kind = "raise" THEN "traceback" ELSE "odds"
    /\ UNCHANGED <<args, odds_against, final_pot_odds, pstdout>>
    /\ UNCHANGED preflop_vars

\* lines 110-114
odds_against_of(p) ==
    IF flt(p, One)
    THEN (IF p.n = 0 THEN Raised("ZeroDivisionError") ELSE fdiv(fsub(One, p), p))
    ELSE Zero

ComputeOddsAgainst ==
    /\ ppc = "odds"
    /\ odds_against' = odds_against_of(win_probability)
    /\ ppc' = IF odds_against'.kind = "raise" THEN "traceback" ELSE "pot_odds"
    /\ UNCHANGED <<args, win_probability, final_pot_odds, pstdout>>
    /\ UNCHANGED preflop_vars

\* lines 116-120
ComputePotOdds ==
    /\ ppc = "pot_odds"
    /\ final_pot_odds' = IF args.call_amount > 0
                         THEN pot_odds(args.pot_size, args.call_amount)
                         ELSE Zero
    /\ ppc' = "print"
    /\ UNCHANGED <<args, win_probability, odds_against, pstdout>>
    /\ UNCHANGED preflop_vars

\* line 135: "if final_pot_odds >= odds_against"
is_favorable_strict(pot, against) == flt(against, pot)
is_favorable(pot, against) == fle(against, pot)

\* lines 123-140
PrintResults ==
    /\ ppc = "print"
    /\ pstdout' =
         <<"===== Poker CLI Results =====", "Outs", "Cards left to see",
           "Method", "Win Probability", "Odds Against (Your hand)">>
         \o (IF args.call_amount > 0
             THEN <<"Pot Size", "Call Amount", "Pot Odds",
                    IF is_favorable(final_pot_odds, odds_against)
                    THEN "=> Pot odds are favorable compared to your odds of hitting (profitable call)."
                    ELSE "=> Pot odds are NOT favorable compared to your odds of hitting (fold might be better).">>
             ELSE <<"No call amount specified, skipping pot odds comparison.">>)
    /\ ppc' = "done"
    /\ UNCHANGED <<args, win_probability, odds_against, final_pot_odds>>
    /\ UNCHANGED preflop_vars

---------------------------------------------------------------------------
(* Specifications *)

PokerOff ==
    /\ ppc = "off"
    /\ args = Unset
    /\ win_probability = Unset
    /\ odds_against = Unset
    /\ final_pot_odds = Unset
    /\ pstdout = << >>

PreflopOff ==
    /\ pc = "off"
    /\ mode = "cli"
    /\ cards = None
    /\ position = None
    /\ stack_size = 100
    /\ action_before = "none"
    /\ normalized = Unset
    /\ result = Unset
    /\ stdout = << >>
    /\ log = << >>
    /\ run_no = 0

\* the advisor before its first run: the log file does not exist yet
Init ==
    /\ pc = "idle"
    /\ mode = "cli"
    /\ cards = None
    /\ position = None
    /\ stack_size = 100
    /\ action_before = "none"
    /\ normalized = Unset
    /\ result = Unset
    /\ stdout = << >>
    /\ log = << >>
    /\ run_no = 0
    /\ PokerOff

Next ==
    \/ ParseArgs
    \/ Prompt
    \/ CheckRequired
    \/ NormalizeStep
    \/ SuggestStep
    \/ PrintStep
    \/ LogStep

Spec == Init /\ [][Next]_vars

\* normalize_hand on every text of Texts and TwoCardTexts, called from main
\* or from run_interactive
InitNormalize ==
    /\ pc = "normalize"
    /\ mode \in {"cli", "interactive"}
    /\ cards \in {Str(t) : t \in Texts \cup TwoCardTexts}
    /\ position = Str("utg")
    /\ stack_size = 100
    /\ action_before = "none"
    /\ normalized = Unset
    /\ result = Unset
    /\ stdout = << >>
    /\ log = << >>
    /\ run_no = 1
    /\ PokerOff

SpecNormalize == InitNormalize /\ [][NormalizeStep]_vars

\* a two-card text that normalizes to the hand code h
text_of(h) ==
    <<h[1], "h", h[2], IF Len(h) = 3 /\ h[3] = "s" THEN "h" ELSE "c">>

\* get_preflop_suggestion on every hand code, position, stack and action of
\* the input sets, called from run_interactive (which takes any position
\* and action text)
InitSuggest ==
    /\ pc = "suggest"
    /\ mode = "interactive"
    /\ \E h \in HandCodes :
         /\ cards = Str(text_of(h))
         /\ normalized = Str(h)
    /\ position \in {Str(p) : p \in SuggestPositions}
    /\ stack_size \in SuggestStacks
    /\ action_before \in SuggestActions
    /\ result = Unset
    /\ stdout = <<"=== Interactive Pre-Flop Advisor ===">>
    /\ log = << >>
    /\ run_no = 1
    /\ PokerOff

SpecSuggest == InitSuggest /\ [][SuggestStep]_vars

\* one run of the probability tool on every command line of the input sets
InitProb ==
    /\ ppc = "start"
    /\ args \in [outs : OutsRange, cards_left_to_see : CardsLeftChoices,
                 pot_size : PotSizes, call_amount : CallAmounts,
                 visible_cards : VisibleCards, method : MethodChoices]
    /\ win_probability = Unset
    /\ odds_against = Unset
    /\ final_pot_odds = Unset
    /\ pstdout = << >>
    /\ PreflopOff

NextProb ==
    \/ ComputeProbability
    \/ ComputeOddsAgainst
    \/ ComputePotOdds
    \/ PrintResults

SpecProb == InitProb /\ [][NextProb]_vars

---------------------------------------------------------------------------
(* Properties of get_preflop_suggestion, under SpecSuggest *)

Suggested == pc = "print" /\ result.kind = "pair"
Recognized == position.val \in DOMAIN RANGES
InRaiseSet == Recognized /\ normalized.val \in RANGES[position.val].raise
InCallSet == Recognized /\ normalized.val \in RANGES[position.val].call

\* C1: with stack_size < 20 the suggestion is "all-in" or "fold", for every
\* hand, position (recognized or not) and action_before, and it is "all-in"
\* exactly when the position is recognized and the hand is in its raise set.
C1_ShortStackPushOrFold ==
    (pc = "print" /\ stack_size < 20) =>
        /\ result.kind = "pair"
        /\ result.suggestion \in {"all-in", "fold"}
        /\ (result.suggestion = "all-in") <=> InRaiseSet

\* C1 witness: a short-stacked shove after an action_before that is not one
\* of the four known ones.
C1_Witness ==
    /\ Suggested
    /\ stack_size = 19
    /\ action_before = "bet"
    /\ result.suggestion = "all-in"

\* C2, as stated: the suggestion is "fold", with an explanation and without
\* an exception, whenever the position is not a key of RANGES or the
\* action_before is not one of none/raise/call/3bet, for every stack size.
C2_FoldOnUnrecognized ==
    (pc = "print" /\ (~Recognized \/ action_before \notin ActionChoices)) =>
        /\ result.kind = "pair"
        /\ result.suggestion = "fold"
        /\ result.explanation # << >>

\* C2, amended: the suggestion is "fold", with an explanation, whenever the
\* position is not recognized (any stack, any action), or the stack is at
\* least 20 and the action_before is not recognized.  With a stack below 20
\* and a recognized position the action_before is never read: the result is
\* the push-or-fold one, "all-in" for a hand of the raise set.
C2_FoldOnUnrecognizedAmended ==
    /\ (pc = "print" /\ (~Recognized
                         \/ (stack_size >= 20 /\ action_before \notin ActionChoices))) =>
          /\ result.kind = "pair"
          /\ result.suggestion = "fold"
          /\ result.explanation # << >>
    /\ (pc = "print" /\ Recognized /\ stack_size < 20
                     /\ action_before \notin ActionChoices) =>
          /\ result.kind = "pair"
          /\ result.suggestion = (IF InRaiseSet THEN "all-in" ELSE "fold")
          /\ result.explanation # << >>

\* C2 witness: a deep-stacked hand of the raise set folded because the
\* action_before is unknown.
C2_Witness ==
    /\ Suggested
    /\ Recognized
    /\ stack_size >= 20
    /\ action_before = "bet"
    /\ InRaiseSet
    /\ result.suggestion = "fold"
    /\ result.explanation = <<"Unknown action_before=", "bet", "; defaulting to fold.">>

\* the aggressive label the claim gives each prior-action branch
AggressiveLabel(action) ==
    CASE action = "none" -> "raise"
      [] action = "raise" -> "3-bet"
      [] action = "call" -> "raise"
      [] action = "3bet" -> "4-bet"

\* C8, as stated: with stack_size >= 20 and a recognized position, in each
\* of the four branches a hand of the raise set gets the branch's aggressive
\* label, otherwise a hand of the call set gets "call", otherwise "fold".
C8_RaiseThenCallEveryBranch ==
    (pc = "print" /\ stack_size >= 20 /\ Recognized
                  /\ action_before \in ActionChoices) =>
        result.suggestion = (IF InRaiseSet THEN AggressiveLabel(action_before)
                             ELSE IF InCallSet THEN "call"
                             ELSE "fold")

\* C8, amended: that holds in the branches none, raise and call.  In the
\* 3bet branch the call set is not consulted: the result is "4-bet" when the
\* hand is in the raise set and is one of AA, KK, QQ, AKs, AKo, and "fold"
\* otherwise.
C8_BranchesAmended ==
    (pc = "print" /\ stack_size >= 20 /\ Recognized
                  /\ action_before \in ActionChoices) =>
        result.suggestion =
            (IF action_before = "3bet"
             THEN (IF InRaiseSet
                      /\ normalized.val \in { <<"A","A">>, <<"K","K">>, <<"Q","Q">>,
                                              <<"A","K","s">>, <<"A","K","o">> }
                   THEN "4-bet" ELSE "fold")
             ELSE IF InRaiseSet THEN AggressiveLabel(action_before)
             ELSE IF InCallSet THEN "call"
             ELSE "fold")

\* C8 witness: facing a 3-bet, a hand of the raise set that is not one of
\* the five top hands is folded.
C8_Witness ==
    /\ Suggested
    /\ stack_size >= 20
    /\ action_before = "3bet"
    /\ InRaiseSet
    /\ normalized.val = <<"J", "J">>
    /\ result.suggestion = "fold"

---------------------------------------------------------------------------
(* Properties of normalize_hand, under SpecNormalize *)

Returned == pc # "normalize"

\* a rank+suit card token
IsCard(tok) == Len(tok) = 2 /\ MatchesRank(tok[1]) /\ MatchesSuit(tok[2])

\* the text resolves to exactly two rank+suit card tokens
ResolvesToTwoCards(t) ==
    LET toks == card_tokens(t)
    IN  Len(toks) = 2 /\ IsCard(toks[1]) /\ IsCard(toks[2])

\* C3: normalize_hand returns a hand code or None and never ends in an
\* unhandled exception; when the text does not resolve to exactly two
\* rank+suit card tokens the result is None, and the caller prints its parse
\* error and exits.
C3_NoneOnUnparseable ==
    Returned =>
        /\ normalized.kind \in {"str", "None"}
        /\ ~ResolvesToTwoCards(cards.val) =>
              /\ normalized = None
              /\ pc \in {"exit0", "exit1"}
              /\ stdout # << >>

\* the text is two valid cards, written together or with one whitespace
\* character between them
IsTwoCardText(t) ==
    /\ Len(t) \in {4, 5}
    /\ t[1] \in CardRankChars
    /\ t[2] \in CardSuitChars
    /\ t[Len(t) - 1] \in CardRankChars
    /\ t[Len(t)] \in CardSuitChars
    /\ Len(t) = 5 => t[3] \in Whitespace

\* the claim's rank values: A=14 .. 2=2
RankValue(r) ==
    CHOOSE i \in 2..14 :
        <<"2", "3", "4", "5", "6", "7", "8", "9", "T", "J", "Q", "K", "A">>[i - 1] = r

\* the hand code the claim gives the two cards of a two-card text
ClaimedCode(t) ==
    LET r1 == upper(t[1])
        r2 == upper(t[Len(t) - 1])
        same_suit == lower(t[2]) = lower(t[Len(t)])
        hi == IF RankValue(r1) >= RankValue(r2) THEN r1 ELSE r2
        lo == IF RankValue(r1) >= RankValue(r2) THEN r2 ELSE r1
    IN  IF r1 = r2 THEN <<r1, r1>>
        ELSE <<hi, lo, IF same_suit THEN "s" ELSE "o">>

\* C6: for two valid cards in any letter case normalize_hand returns the
\* rank twice when the ranks are equal, and otherwise the higher rank, the
\* lower rank and "s" for equal suits, "o" for different ones.
C6_HandCode ==
    (Returned /\ IsTwoCardText(cards.val)) =>
        normalized = Str(ClaimedCode(cards.val))

\* C6 witness: a suited hand typed lower rank first, in mixed letter case.
C6_Witness ==
    /\ Returned
    /\ cards.val = <<"k", "H", "A", "h">>
    /\ normalized = Str(<<"A", "K", "s">>)

\* the two cards of a two-card text in the other order
Swapped(t) ==
    SubSeq(t, Len(t) - 1, Len(t)) \o SubSeq(t, 3, Len(t) - 2) \o SubSeq(t, 1, 2)

\* C7: the hand code does not depend on the order the two cards are written
\* in.
C7_OrderIndependent ==
    (Returned /\ IsTwoCardText(cards.val)) =>
        /\ normalized.kind = "str"
        /\ normalized = normalize_hand(Swapped(cards.val))

\* C7 witness: an offsuit hand typed lower rank first.
C7_Witness ==
    /\ Returned
    /\ cards.val = <<"K", "c", " ", "A", "h">>
    /\ normalized = Str(<<"A", "K", "o">>)
    /\ normalize_hand(<<"A", "h", " ", "K", "c">>) = Str(<<"A", "K", "o">>)

---------------------------------------------------------------------------
(* Properties of the probability tool, under SpecProb *)

ProbabilityComputed == ppc \notin {"off", "start"}

\* C4: the probability returned by rule_of_2_and_4 and by
\* exact_probability_by_outs lies in [0.0, 1.0] for every integer outs,
\* cards_left_to_see in {1, 2} and integer visible_cards.
C4_ProbabilityInUnitInterval ==
    ProbabilityComputed =>
        /\ win_probability.kind = "float"
        /\ fle(Zero, win_probability)
        /\ fle(win_probability, One)

FavorableLine ==
    "=> Pot odds are favorable compared to your odds of hitting (profitable call)."
FavorablePrinted == \E i \in 1..Len(pstdout) : pstdout[i] = FavorableLine

C9_RuleOf2And4 ==
    (ProbabilityComputed /\ args.method = "rule_of_2_4" /\ args.outs >= 0) =>
        LET per_out == IF args.cards_left_to_see = 2 THEN 4 ELSE 2
            pct == args.outs * per_out
        IN  /\ win_probability.kind = "float"
            /\ IF pct >= 100 THEN win_probability.n = win_probability.d
               ELSE 100 * win_probability.n = pct * win_probability.d
            /\ (args.outs = 9 /\ args.cards_left_to_see = 2) =>
                  25 * win_probability.n = 9 * win_probability.d
            /\ (args.outs = 9 /\ args.cards_left_to_see = 1) =>
                  50 * win_probability.n = 9 * win_probability.d

\* C9 witness: 30 outs with two cards to come are capped at 100%.
C9_Witness ==
    /\ ProbabilityComputed
    /\ args.method = "rule_of_2_4"
    /\ args.outs = 30
    /\ args.cards_left_to_see = 2
    /\ feq(win_probability, One)

---------------------------------------------------------------------------
(* Properties of the log file, under Spec *)

IsPrefix(s, t) == Len(s) <= Len(t) /\ SubSeq(t, 1, Len(s)) = s

\* the run ended in an input error
InputError ==
    \/ pc \in {"exit1", "traceback"}
    \/ pc = "exit0" /\ normalized.kind = "None"

\* C10: the log only grows by appending; a run that parses the hand and
\* computes a suggestion appends exactly one line, after the suggestion is
\* computed and printed; a run that ends in an input error leaves the log
\* unchanged.
C10_OneLinePerRun ==
    [][/\ IsPrefix(log, log')
       /\ log' # log => (pc = "log" /\ result.kind = "pair" /\ stdout # << >>)
       /\ pc = "log" => lines_of_file(log') = lines_of_file(log) + 1
       /\ InputError' => log' = log]_vars

\* the part of C10 that does not count lines: the log only grows by one
\* write per completed run, made after the suggestion is printed, and an
\* input error writes nothing
LogAppendOnly ==
    [][/\ IsPrefix(log, log')
       /\ log' # log => (pc = "log" /\ result.kind = "pair" /\ stdout # << >>)
       /\ pc = "log" => Len(log') = Len(log) + 1
       /\ InputError' => log' = log]_vars

=============================================================================
